---- MODULE Spec2Model ----
(***************************************************************************)
(* Model of the msg_transfer plugin (src/main.py, src/webhook.py): the     *)
(* JSON-file store (rules, pending bind codes, webhooks), the mt commands  *)
(* and the per-rule delivery of forward_message; the files themselves,     *)
(* with a process that can die inside a write; the identity mappings.      *)
(*                                                                         *)
(* rules, pending and webhooks are the dicts the three json files hold     *)
(* when every write completes; disk has the files as text, for the         *)
(* behaviours in which a write does not complete or a file is missing or   *)
(* damaged, or in which two callers that share no event loop work on the   *)
(* same files (SpecRace).  Where a handler of Spec, SpecBinding or         *)
(* SpecFanout loads a collection, the file on disk decides whether the     *)
(* load raises and the dict is what it returns (load_collection).          *)
(*                                                                         *)
(* Strings are sequences of tokens.  A token is a piece of text that the   *)
(* code never looks into (a platform id, a message type, a numeric id) or  *)
(* one of the separators ":" and "_" that split and endswith act on.  No   *)
(* token of the vocabulary below is a part of another one, so the string   *)
(* operations on token sequences are the ones Python computes on the       *)
(* characters.  Rule ids are decimal strings: sequences of digit tokens.   *)
(***************************************************************************)
EXTENDS Integers, Sequences, FiniteSets, Bags, TLC

VARIABLES
    rules,      \* content of rules.json: rid -> [source_umo, target_umo]
    pending,    \* content of pending.json: code -> source_umo
    webhooks,   \* content of webhooks.json: target_umo -> webhook url
    last,       \* the last completed call: [op, arg, err, out]
    issued,     \* history of CallAddRule: the rule ids returned so far
    codeState,  \* history of CallAddPending / CallPopPending:
                \* code -> "never" | "stored" | "consumed"
    binds,      \* bag of the cmd_bind handlers suspended in
                \* create_webhook_for_channel: [target_umo, rid]
    fwd,        \* forward_message handlers and their per-rule tasks
    disk,       \* the data directory: path -> [exists, text]
    up,         \* whether the plugin process is running
    mappings,   \* user_mapping_manager.mappings of the running process
    faults,     \* history: the crashes inside a write and the outside
                \* changes of a file so far
    calls       \* callers of the store that do not share an event loop:
                \* caller -> [pc, call, base, data, err, ret, n]

vars == <<rules, pending, webhooks, last, issued, codeState, binds, fwd,
          disk, up, mappings, faults, calls>>

-----------------------------------------------------------------------------
(* Python string operations on token sequences *)

RECURSIVE SplitFrom(_, _, _)
SplitFrom(s, sep, cur) ==
    IF s = <<>> THEN <<cur>>
    ELSE IF Head(s) = sep THEN <<cur>> \o SplitFrom(Tail(s), sep, <<>>)
    ELSE SplitFrom(Tail(s), sep, Append(cur, Head(s)))

\* str.split(sep)
split(s, sep) == SplitFrom(s, sep, <<>>)

\* str.endswith(suffix)
endswith(s, suffix) ==
    /\ Len(suffix) <= Len(s)
    /\ SubSeq(s, Len(s) - Len(suffix) + 1, Len(s)) = suffix

Digits == <<"0", "1", "2", "3", "4", "5", "6", "7", "8", "9">>

DigitVal(c) == (CHOOSE i \in 1..10 : Digits[i] = c) - 1

\* str(n) of a natural number
RECURSIVE str(_)
str(n) == IF n < 10 THEN <<Digits[n + 1]>>
          ELSE Append(str(n \div 10), Digits[(n % 10) + 1])

\* int(s) of a decimal string
RECURSIVE int(_)
int(s) == IF Len(s) = 1 THEN DigitVal(s[1])
          ELSE 10 * int(SubSeq(s, 1, Len(s) - 1)) + DigitVal(s[Len(s)])

\* max(xs, default=0)
MaxOr0(xs) == IF xs = {} THEN 0 ELSE CHOOSE m \in xs : \A x \in xs : x <= m

EmptyDict == [k \in {} |-> {}]

\* dict.pop(k) / del d[k]
Without(d, k) == [x \in (DOMAIN d) \ {k} |-> d[x]]

\* d[k] = v
With(d, k, v) == [x \in (DOMAIN d) \cup {k} |-> IF x = k THEN v ELSE d[x]]

-----------------------------------------------------------------------------
(* Conversation ids (unified_msg_origin) the calls are made with *)

UmoA  == <<"qq", ":", "GroupMessage", ":", "100", "_", "200">>
UmoA2 == <<"qq", ":", "GroupMessage", ":", "200">>
UmoQ  == <<"tg", ":", "GroupMessage", ":", "200">>
UmoF  == <<"qq", ":", "FriendMessage", ":", "200">>
UmoX  == <<"qq", ":", "GroupMessage", ":", "200", ":", "x">>
UmoM  == <<"qq", ":", "GroupMessage">>
UmoB  == <<"discord", ":", "GroupMessage", ":", "300">>
UmoD  == <<"discord", ":", "FriendMessage", ":", "abc">>

NoRid == <<>>
NoUmo == <<>>

-----------------------------------------------------------------------------
(* MsgTransferStore: each operation loads the file, changes the dict and   *)
(* saves it; the operators return the outcome and the dict that is on disk *)
(* afterwards.                                                             *)

Rule(source_umo, target_umo) ==
    [source_umo |-> source_umo, target_umo |-> target_umo]

add_rule_no_check(data, source_umo, target_umo) ==
    LET new_id == str(MaxOr0({int(k) : k \in DOMAIN data}) + 1)
    IN  [err |-> "none", rid |-> new_id,
         data |-> With(data, new_id, Rule(source_umo, target_umo))]

add_rule_swapped(data, source_umo, target_umo) ==
    add_rule_no_check(data, target_umo, source_umo)

add_rule(data, source_umo, target_umo) ==
    IF \E rid \in DOMAIN data :
          /\ data[rid].source_umo = source_umo
          /\ data[rid].target_umo = target_umo
    THEN [err |-> "ValueError", rid |-> NoRid, data |-> data]
    ELSE LET new_id == str(MaxOr0({int(k) : k \in DOMAIN data}) + 1)
         IN  [err |-> "none", rid |-> new_id,
              data |-> With(data, new_id, Rule(source_umo, target_umo))]

delete_rule_clear(data, rid) ==
    IF rid \notin DOMAIN data
    THEN [err |-> "KeyError", data |-> data]
    ELSE [err |-> "none", data |-> EmptyDict]

delete_rule(data, rid) ==
    IF rid \notin DOMAIN data
    THEN [err |-> "KeyError", data |-> data]
    ELSE [err |-> "none", data |-> Without(data, rid)]

add_pending_unsaved(p, code, source_umo) == p

add_pending(p, code, source_umo) == With(p, code, source_umo)

pop_pending_keep(p, code) ==
    IF code \notin DOMAIN p
    THEN [err |-> "KeyError", source_umo |-> NoUmo, data |-> p]
    ELSE [err |-> "none", source_umo |-> p[code], data |-> p]

pop_pending_clear(p, code) ==
    IF code \notin DOMAIN p
    THEN [err |-> "KeyError", source_umo |-> NoUmo, data |-> p]
    ELSE [err |-> "none", source_umo |-> p[code], data |-> EmptyDict]

pop_pending(p, code) ==
    IF code \notin DOMAIN p
    THEN [err |-> "KeyError", source_umo |-> NoUmo, data |-> p]
    ELSE [err |-> "none", source_umo |-> p[code], data |-> Without(p, code)]

\* the test of lines 168-178 on one rule: both ids have three segments, the
\* platform and the message type agree, and the id parts match
fuzzy_match_any_platform(parts, rule_parts) ==
    /\ Len(rule_parts) >= 3
    /\ rule_parts[2] = parts[2]
    /\ \/ rule_parts[3] = parts[3]
       \/ endswith(rule_parts[3], <<"_">> \o parts[3])
       \/ endswith(parts[3], <<"_">> \o rule_parts[3])

fuzzy_match(parts, rule_parts) ==
    /\ Len(rule_parts) >= 3
    /\ rule_parts[1] = parts[1] /\ rule_parts[2] = parts[2]
    /\ \/ rule_parts[3] = parts[3]
       \/ endswith(rule_parts[3], <<"_">> \o parts[3])
       \/ endswith(parts[3], <<"_">> \o rule_parts[3])

Restrict(data, rids) == [rid \in rids |-> data[rid]]

exact_matches(data, source_umo) ==
    {rid \in DOMAIN data : data[rid].source_umo = source_umo}

fuzzy_matches(data, source_umo) ==
    LET parts == split(source_umo, ":")
    IN  IF Len(parts) >= 3
        THEN {rid \in DOMAIN data :
                 fuzzy_match(parts, split(data[rid].source_umo, ":"))}
        ELSE {}

list_rules_merged(data, source_umo) ==
    Restrict(data, exact_matches(data, source_umo)
                   \cup fuzzy_matches(data, source_umo))

list_rules(data, source_umo) ==
    IF exact_matches(data, source_umo) # {}
    THEN Restrict(data, exact_matches(data, source_umo))
    ELSE Restrict(data, fuzzy_matches(data, source_umo))

None == "None"

set_webhook_url(data, target_umo, webhook_url) ==
    With(data, target_umo, webhook_url)

get_webhook_url(data, target_umo) ==
    IF target_umo \in DOMAIN data THEN data[target_umo] ELSE None

-----------------------------------------------------------------------------
(* The files of the data directory.  A file's text is the sequence of the   *)
(* pieces json.dump writes: the opening brace, the members, the closing     *)
(* brace.  A crash while a file is being written leaves a prefix of them.   *)

rule_file         == "rules.json"
pending_file      == "pending.json"
webhook_file      == "webhooks.json"
user_mapping_file == "user_mapping.json"

JsonFiles == {rule_file, pending_file, webhook_file}
DataFiles == JsonFiles \cup {user_mapping_file}

\* Path.with_suffix(".tmp")
with_suffix_tmp(path) ==
    CASE path = "rules.json" -> "rules.tmp"
      [] path = "pending.json" -> "pending.tmp"
      [] path = "webhooks.json" -> "webhooks.tmp"
      [] path = "user_mapping.json" -> "user_mapping.tmp"

DiskPaths == DataFiles \cup {with_suffix_tmp(f) : f \in JsonFiles}

Absent == [exists |-> FALSE, text |-> <<>>]
File(text) == [exists |-> TRUE, text |-> text]

\* json.dump(data, f, ensure_ascii=False, indent=2): the pieces written
dumps(data) == <<"{", data, "}">>

\* whether json.load returns (it raises JSONDecodeError otherwise)
is_json(text) == Len(text) = 3 /\ text[1] = "{" /\ text[3] = "}"

\* json.load of a text that is a JSON document
loads(text) == text[2]

\* content that is not a JSON document
Garbage == <<"not json">>

load_json_missing_raises(d, path) ==
    IF ~d[path].exists
    THEN [err |-> "RuntimeError", data |-> EmptyDict, log |-> "read failed"]
    ELSE IF is_json(d[path].text)
    THEN [err |-> "none", data |-> loads(d[path].text), log |-> "none"]
    ELSE [err |-> "ValueError", data |-> EmptyDict, log |-> "invalid json"]

\* load_json: the exception raised, the dict returned, the error logged
load_json(d, path) ==
    IF ~d[path].exists
    THEN [err |-> "none", data |-> EmptyDict, log |-> "file missing"]
    ELSE IF is_json(d[path].text)
    THEN [err |-> "none", data |-> loads(d[path].text), log |-> "none"]
    ELSE [err |-> "ValueError", data |-> EmptyDict, log |-> "invalid json"]

\* what a method of the store gets from load_json(path) when `data` is the
\* collection last saved there: the file decides whether the load raises
load_collection(d, path, data) ==
    LET r == load_json(d, path)
    IN  IF r.err # "none" THEN [err |-> r.err, data |-> EmptyDict]
        ELSE [err |-> "none", data |-> data]

\* the steps of save_json, and of save_mappings, that change the disk
SaveJsonSteps     == <<"open tmp", "write", "write", "write", "replace">>
SaveMappingsSteps == <<"open", "write", "write", "write">>

Min(a, b) == IF a < b THEN a ELSE b

save_json_in_place(d, path, data, stop) ==
    IF stop = 0 THEN d
    ELSE [d EXCEPT ![path] = File(SubSeq(dumps(data), 1, Min(stop - 1, 3)))]

\* save_json when the process dies after `stop` of its steps; it returns
\* when stop = Len(SaveJsonSteps)
save_json(d, path, data, stop) ==
    LET tmp == with_suffix_tmp(path)
    IN  IF stop = 0 THEN d
        ELSE IF stop < Len(SaveJsonSteps)
        THEN [d EXCEPT ![tmp] = File(SubSeq(dumps(data), 1, stop - 1))]
        ELSE [d EXCEPT ![tmp] = Absent, ![path] = File(dumps(data))]

\* _ensure_files
ensure_files(d) ==
    [path \in DOMAIN d |->
        IF path \in JsonFiles /\ ~d[path].exists
        THEN File(dumps(EmptyDict)) ELSE d[path]]

\* UserMappingManager.load_mappings: what self.mappings is afterwards and
\* the line logged; the method raises nothing and returns None
load_mappings(d, path) ==
    IF ~d[path].exists
    THEN [mappings |-> EmptyDict, log |-> "file missing", ret |-> "None"]
    ELSE IF is_json(d[path].text)
    THEN [mappings |-> IF "mappings" \in DOMAIN loads(d[path].text)
                       THEN loads(d[path].text)["mappings"] ELSE EmptyDict,
          log |-> "loaded", ret |-> "None"]
    ELSE [mappings |-> EmptyDict, log |-> "load failed", ret |-> "None"]

\* UserMappingManager.save_mappings when the process dies after `stop` of
\* its steps; it returns when stop = Len(SaveMappingsSteps)
save_mappings(d, path, m, stop) ==
    IF stop = 0 THEN d
    ELSE [d EXCEPT ![path] =
             File(SubSeq(dumps("mappings" :> m), 1, stop - 1))]

-----------------------------------------------------------------------------
(* Bounds and inputs.  MaxStoreRules: rules stored under SpecRules.         *)
(* MaxRules: rules stored under Spec.  MaxBinds: cmd_bind handlers          *)
(* suspended at a time.                                                     *)

MaxStoreRules == 2

RuleSources == {UmoA, UmoA2, UmoQ, UmoF, UmoX, UmoM}
RuleTargets == {UmoB, UmoD}
Queries     == RuleSources
Codes       == {"a1b2c3", "k9k9k9", "zz00zz"}
Initiators  == {UmoA, UmoA2, UmoB}
RidInputs   == {str(n) : n \in 1..(MaxStoreRules + 1)}

MaxRules  == 2
MaxBinds  == 1
\* the forward_message handlers that can be in flight at a time
Events    == {"m1"}

\* a forward_message handler that is not running: `raised` is the exception
\* its last run let out to the host, `log` the one it logged instead
FwdIdle  == [pc |-> "idle", source_umo |-> NoUmo, tasks |-> EmptyDict,
             raised |-> "none", log |-> "none"]

NoCall == [op |-> "none", arg |-> <<>>, err |-> "none", out |-> <<>>]

\* the callers of the store besides the one event loop
Callers == {"p1", "p2"}

\* a caller that has called nothing yet
CallerIdle ==
    [pc |-> "idle", call |-> [op |-> "none", args |-> <<>>],
     base |-> EmptyDict, data |-> EmptyDict, err |-> "none", ret |-> <<>>,
     n |-> 0]

Init ==
    /\ rules = EmptyDict
    /\ pending = EmptyDict
    /\ webhooks = EmptyDict
    /\ last = NoCall
    /\ issued = {}
    /\ codeState = [c \in Codes |-> "never"]
    /\ binds = EmptyBag
    /\ fwd = [e \in Events |-> FwdIdle]
    /\ disk = ensure_files([path \in DiskPaths |-> Absent])
    /\ up = TRUE
    /\ mappings = load_mappings(disk, user_mapping_file).mappings
    /\ faults = 0
    /\ calls = [c \in Callers |-> CallerIdle]

-----------------------------------------------------------------------------
(* Calls of the store, one at a time *)

CallAddRule(source_umo, target_umo) ==
    /\ LET r == add_rule(rules, source_umo, target_umo)
       IN  /\ Cardinality(DOMAIN r.data) <= MaxStoreRules
           /\ rules' = r.data
           /\ last' = [op |-> "add_rule", arg |-> <<source_umo, target_umo>>,
                       err |-> r.err, out |-> r.rid]
           /\ issued' = IF r.err = "none" THEN issued \cup {r.rid} ELSE issued
    /\ UNCHANGED <<calls, disk, up, mappings, faults, pending, webhooks, codeState, binds, fwd>>

CallDeleteRule(rid) ==
    /\ LET r == delete_rule(rules, rid)
       IN  /\ rules' = r.data
           /\ last' = [op |-> "delete_rule", arg |-> rid,
                       err |-> r.err, out |-> <<>>]
    /\ UNCHANGED <<calls, disk, up, mappings, faults, pending, webhooks, issued, codeState, binds, fwd>>

CallListRules(source_umo) ==
    /\ last' = [op |-> "list_rules", arg |-> source_umo, err |-> "none",
                out |-> list_rules(rules, source_umo)]
    /\ UNCHANGED <<calls, disk, up, mappings, faults, rules, pending, webhooks, issued, codeState, binds, fwd>>

CallAddPending(code, source_umo) ==
    /\ pending' = add_pending(pending, code, source_umo)
    /\ last' = [op |-> "add_pending", arg |-> <<code, source_umo>>,
                err |-> "none", out |-> <<>>]
    /\ codeState' = [codeState EXCEPT ![code] = "stored"]
    /\ UNCHANGED <<calls, disk, up, mappings, faults, rules, webhooks, issued, binds, fwd>>

CallPopPending(code) ==
    /\ LET r == pop_pending(pending, code)
       IN  /\ pending' = r.data
           /\ last' = [op |-> "pop_pending", arg |-> code,
                       err |-> r.err, out |-> r.source_umo]
           /\ codeState' = IF r.err = "none"
                           THEN [codeState EXCEPT ![code] = "consumed"]
                           ELSE codeState
    /\ UNCHANGED <<calls, disk, up, mappings, faults, rules, webhooks, issued, binds, fwd>>

NextRules ==
    \/ \E s \in RuleSources, t \in RuleTargets : CallAddRule(s, t)
    \/ \E rid \in RidInputs : CallDeleteRule(rid)
    \/ \E q \in Queries : CallListRules(q)

SpecRules == Init /\ [][NextRules]_vars

NextPending ==
    \/ \E c \in Codes, u \in Initiators : CallAddPending(c, u)
    \/ \E c \in Codes : CallPopPending(c)

SpecPending == Init /\ [][NextPending]_vars

-----------------------------------------------------------------------------
(* The store and the mapping manager on the files.  A call runs without     *)
(* interruption; the process can die inside its write, after `stop` steps   *)
(* of it, and files can be removed or damaged from outside.                 *)

\* the crashes inside a write and the outside changes of files in a behaviour
MaxFaults == 2

Call(op, args) == [op |-> op, args |-> args]

FileUrl == "https://discord.com/api/webhooks/1/t"

FileCalls ==
    {Call("add_rule", <<UmoA, UmoB>>), Call("delete_rule", <<str(1)>>),
     Call("list_rules", <<UmoA>>),
     Call("add_pending", <<"a1b2c3", UmoA>>),
     Call("pop_pending", <<"a1b2c3">>),
     Call("set_webhook_url", <<UmoB, FileUrl>>),
     Call("get_webhook_url", <<UmoB>>),
     Call("remove_webhook_url", <<UmoB>>)}

\* the file a method of MsgTransferStore loads
store_file(call) ==
    CASE call.op \in {"add_rule", "delete_rule", "list_rules"} -> rule_file
      [] call.op \in {"add_pending", "pop_pending"} -> pending_file
      [] OTHER -> webhook_file

\* the method between its load and its save: the exception it raises,
\* whether it saves, the dict it saves, what it returns
store_apply(call, data) ==
    LET a == call.args
    IN  CASE call.op = "add_rule" ->
               LET r == add_rule(data, a[1], a[2])
               IN  [err |-> r.err, save |-> r.err = "none", data |-> r.data,
                    ret |-> r.rid]
          [] call.op = "delete_rule" ->
               LET r == delete_rule(data, a[1])
               IN  [err |-> r.err, save |-> r.err = "none", data |-> r.data,
                    ret |-> <<>>]
          [] call.op = "list_rules" ->
               [err |-> "none", save |-> FALSE, data |-> data,
                ret |-> list_rules(data, a[1])]
          [] call.op = "add_pending" ->
               [err |-> "none", save |-> TRUE,
                data |-> add_pending(data, a[1], a[2]), ret |-> <<>>]
          [] call.op = "pop_pending" ->
               LET r == pop_pending(data, a[1])
               IN  [err |-> r.err, save |-> r.err = "none", data |-> r.data,
                    ret |-> r.source_umo]
          [] call.op = "set_webhook_url" ->
               [err |-> "none", save |-> TRUE,
                data |-> set_webhook_url(data, a[1], a[2]), ret |-> <<>>]
          [] call.op = "get_webhook_url" ->
               [err |-> "none", save |-> FALSE, data |-> data,
                ret |-> get_webhook_url(data, a[1])]
          [] call.op = "remove_webhook_url" ->
               [err |-> "none", save |-> a[1] \in DOMAIN data,
                data |-> Without(data, a[1]), ret |-> <<>>]

\* a method of MsgTransferStore: load_json, the change, save_json
store_call(d, call, stop) ==
    LET path == store_file(call)
        loaded == load_json(d, path)
        r == store_apply(call, loaded.data)
    IN  IF loaded.err # "none"
        THEN [err |-> loaded.err, disk |-> d, crashed |-> FALSE,
              log |-> loaded.log, ret |-> <<>>]
        ELSE IF ~r.save
        THEN [err |-> r.err, disk |-> d, crashed |-> FALSE,
              log |-> loaded.log, ret |-> r.ret]
        ELSE IF stop < Len(SaveJsonSteps)
        THEN [err |-> "crashed", disk |-> save_json(d, path, r.data, stop),
              crashed |-> TRUE, log |-> loaded.log, ret |-> <<>>]
        ELSE [err |-> "none", disk |-> save_json(d, path, r.data, stop),
              crashed |-> FALSE, log |-> loaded.log, ret |-> r.ret]

StoreCall(call, stop) ==
    /\ up
    /\ LET r == store_call(disk, call, stop)
       IN  /\ r.crashed \/ stop = Len(SaveJsonSteps)
           /\ r.crashed => faults < MaxFaults
           /\ disk' = r.disk
           /\ up' = ~r.crashed
           /\ mappings' = IF r.crashed THEN EmptyDict ELSE mappings
           /\ faults' = IF r.crashed THEN faults + 1 ELSE faults
           /\ last' = [op |-> call.op, arg |-> call.args, err |-> r.err,
                       out |-> [log |-> r.log, ret |-> r.ret]]
    /\ UNCHANGED <<calls, rules, pending, webhooks, issued, codeState, binds, fwd>>

\* f"{original_platform}:{original_user_id}:{target_platform}"
mapping_key(original_platform, original_user_id, target_platform) ==
    original_platform \o <<":">> \o original_user_id \o <<":">>
        \o target_platform

\* add_mapping on self.mappings; the method returns None
add_mapping(m, original_platform, original_user_id, target_platform, target_user_id) ==
    With(m, mapping_key(original_platform, original_user_id,
                        target_platform), target_user_id)

get_mapped_user_id(m, original_platform, original_user_id, target_platform) ==
    LET key == mapping_key(original_platform, original_user_id,
                           target_platform)
    IN  IF key \in DOMAIN m THEN m[key] ELSE original_user_id

FileMapCalls == {<<<<"aiocqhttp">>, <<"111">>, <<"discord">>, <<"900">>>>}

CallAddMapping(a, stop) ==
    /\ up
    /\ LET m == add_mapping(mappings, a[1], a[2], a[3], a[4])
           crashed == stop < Len(SaveMappingsSteps)
       IN  /\ crashed => faults < MaxFaults
           /\ disk' = save_mappings(disk, user_mapping_file, m, stop)
           /\ up' = ~crashed
           /\ mappings' = IF crashed THEN EmptyDict ELSE m
           /\ faults' = IF crashed THEN faults + 1 ELSE faults
           /\ last' = [op |-> "add_mapping", arg |-> a,
                       err |-> IF crashed THEN "crashed" ELSE "none",
                       out |-> [log |-> "none", ret |-> None]]
    /\ UNCHANGED <<calls, rules, pending, webhooks, issued, codeState, binds, fwd>>

\* MsgTransfer.__init__: _ensure_files, then UserMappingManager(file)
Start ==
    /\ ~up
    /\ LET loaded == load_mappings(ensure_files(disk), user_mapping_file)
       IN  /\ disk' = ensure_files(disk)
           /\ mappings' = loaded.mappings
           /\ last' = [op |-> "start", arg |-> <<>>, err |-> "none",
                       out |-> [log |-> loaded.log, ret |-> None]]
    /\ up' = TRUE
    /\ UNCHANGED <<calls, rules, pending, webhooks, issued, codeState, binds, fwd,
                   faults>>

\* the process ends between two handlers
Stop ==
    /\ up
    /\ up' = FALSE
    /\ mappings' = EmptyDict
    /\ last' = [op |-> "stop", arg |-> <<>>, err |-> "none",
                out |-> [log |-> "none", ret |-> None]]
    /\ UNCHANGED <<calls, rules, pending, webhooks, issued, codeState, binds, fwd,
                   disk, faults>>

\* a file is deleted from outside
ExternalRemove(path) ==
    /\ faults < MaxFaults
    /\ disk[path].exists
    /\ disk' = [disk EXCEPT ![path] = Absent]
    /\ faults' = faults + 1
    /\ last' = [op |-> "removed", arg |-> path, err |-> "none",
                out |-> [log |-> "none", ret |-> None]]
    /\ UNCHANGED <<calls, rules, pending, webhooks, issued, codeState, binds, fwd,
                   up, mappings>>

\* a file's content is replaced from outside by text that is not JSON
ExternalCorrupt(path) ==
    /\ faults < MaxFaults
    /\ disk[path] # File(Garbage)
    /\ disk' = [disk EXCEPT ![path] = File(Garbage)]
    /\ faults' = faults + 1
    /\ last' = [op |-> "damaged", arg |-> path, err |-> "none",
                out |-> [log |-> "none", ret |-> None]]
    /\ UNCHANGED <<calls, rules, pending, webhooks, issued, codeState, binds, fwd,
                   up, mappings>>

NextFiles ==
    \/ \E call \in FileCalls, stop \in 0..Len(SaveJsonSteps) :
          StoreCall(call, stop)
    \/ \E a \in FileMapCalls, stop \in 0..Len(SaveMappingsSteps) :
          CallAddMapping(a, stop)
    \/ Start
    \/ Stop
    \/ \E path \in DataFiles : ExternalRemove(path)
    \/ \E path \in DataFiles : ExternalCorrupt(path)

SpecFiles == Init /\ [][NextFiles]_vars

-----------------------------------------------------------------------------
(* Two callers of the store on one data directory that do not share an      *)
(* event loop (two processes, or two threads): a method's load_json and its *)
(* save_json are then separate steps, and the steps of the callers          *)
(* interleave.                                                              *)

\* the calls each caller makes in a behaviour
MaxCalls == 2

RaceCalls ==
    {Call("add_rule", <<UmoA, UmoB>>), Call("add_rule", <<UmoA2, UmoD>>),
     Call("delete_rule", <<str(1)>>),
     Call("add_pending", <<"a1b2c3", UmoA>>),
     Call("add_pending", <<"k9k9k9", UmoA2>>),
     Call("pop_pending", <<"a1b2c3">>)}

\* a method of the store from its load_json up to its save_json: the dict
\* loaded, the exception raised, whether it goes on to save, the dict it
\* will save, what it will return
store_load(d, call) ==
    LET loaded == load_json(d, store_file(call))
        r == store_apply(call, loaded.data)
    IN  IF loaded.err # "none"
        THEN [base |-> EmptyDict, err |-> loaded.err, save |-> FALSE,
              data |-> EmptyDict, ret |-> <<>>]
        ELSE [base |-> loaded.data, err |-> r.err, save |-> r.save,
              data |-> r.data, ret |-> r.ret]

store_save_reloaded(d, call, data) ==
    LET path == store_file(call)
    IN  save_json(d, path, store_apply(call, load_json(d, path).data).data,
                  Len(SaveJsonSteps))

\* the method's save_json(path, data) of the dict it changed
store_save(d, call, data) ==
    save_json(d, store_file(call), data, Len(SaveJsonSteps))

\* caller c enters a method, which runs to its save_json, or returns or
\* raises before it
RaceLoad(c, call) ==
    /\ calls[c].pc \in {"idle", "returned"}
    /\ calls[c].n < MaxCalls
    /\ LET r == store_load(disk, call)
       IN  calls' = [calls EXCEPT ![c] =
                        [pc |-> IF r.save THEN "loaded" ELSE "returned",
                         call |-> call, base |-> r.base, data |-> r.data,
                         err |-> r.err, ret |-> r.ret, n |-> @.n + 1]]
    /\ UNCHANGED <<rules, pending, webhooks, last, issued, codeState, binds,
                   fwd, disk, up, mappings, faults>>

\* caller c's method saves and returns
RaceSave(c) ==
    /\ calls[c].pc = "loaded"
    /\ disk' = store_save(disk, calls[c].call, calls[c].data)
    /\ calls' = [calls EXCEPT ![c].pc = "returned"]
    /\ UNCHANGED <<rules, pending, webhooks, last, issued, codeState, binds,
                   fwd, up, mappings, faults>>

NextRace ==
    \/ \E c \in Callers, call \in RaceCalls : RaceLoad(c, call)
    \/ \E c \in Callers : RaceSave(c)

SpecRace == Init /\ [][NextRace]_vars

-----------------------------------------------------------------------------
(* The mapping manager and its commands.  Platform names and user ids are   *)
(* token sequences, so that an id may hold the ":" the key is joined with.  *)

\* the attributes class UserMappingManager defines
UserMappingManagerAttrs ==
    {"__init__", "load_mappings", "save_mappings", "add_mapping",
     "get_mapped_user_id", "create_mapping_if_not_exists",
     "convert_at_mentions", "auto_create_mapping_if_needed"}

\* bool(x) of what a method returned
truthy(x) == x # None

create_mapping_if_not_exists(m, original_platform, original_user_id, target_platform, target_user_id) ==
    IF mapping_key(original_platform, original_user_id, target_platform)
          \notin DOMAIN m
    THEN [created |-> TRUE,
          mappings |-> add_mapping(m, original_platform, original_user_id,
                                   target_platform, target_user_id)]
    ELSE [created |-> FALSE, mappings |-> m]

\* the forward mapping, then the reverse one; each is saved when created
auto_create_mapping_if_needed(m, source_platform, source_user_id, target_platform, target_user_id) ==
    LET forward == create_mapping_if_not_exists(m, source_platform,
                       source_user_id, target_platform, target_user_id)
        reverse == create_mapping_if_not_exists(forward.mappings,
                       target_platform, target_user_id, source_platform,
                       source_user_id)
    IN  [saved |-> forward.created \/ reverse.created,
         mappings |-> reverse.mappings]

MapCalls ==
    {<<<<"qq">>, <<"7", ":", "8">>, <<"discord">>, <<"900">>>>,
     <<<<"qq", ":", "7">>, <<"8">>, <<"discord">>, <<"901">>>>,
     <<<<"qq">>, <<"7">>, <<"discord">>, <<"900">>>>,
     <<<<"qq">>, <<"7">>, <<"discord">>, <<"901">>>>}

AutoCalls ==
    {<<<<"aiocqhttp">>, <<"111">>, <<"discord">>, <<"webhook">>>>,
     <<<<"aiocqhttp">>, <<"222">>, <<"discord">>, <<"webhook">>>>}

\* the (platform, user id, platform) triples looked up
MapTriples ==
    {<<a[1], a[2], a[3]>> : a \in MapCalls \cup AutoCalls}
        \cup {<<a[3], a[4], a[1]>> : a \in AutoCalls}

CallGetMappedUserId(t) ==
    /\ up
    /\ last' = [op |-> "get_mapped_user_id", arg |-> t, err |-> "none",
                out |-> [log |-> "none",
                         ret |-> get_mapped_user_id(mappings, t[1], t[2],
                                                    t[3])]]
    /\ UNCHANGED <<calls, rules, pending, webhooks, issued, codeState, binds, fwd,
                   disk, up, mappings, faults>>

CallAutoCreate(a) ==
    /\ up
    /\ LET r == auto_create_mapping_if_needed(mappings, a[1], a[2], a[3],
                                              a[4])
       IN  /\ mappings' = r.mappings
           /\ disk' = IF r.saved
                      THEN save_mappings(disk, user_mapping_file, r.mappings,
                                         Len(SaveMappingsSteps))
                      ELSE disk
    /\ last' = [op |-> "auto_create_mapping_if_needed", arg |-> a,
                err |-> "none", out |-> [log |-> "created", ret |-> None]]
    /\ UNCHANGED <<calls, rules, pending, webhooks, issued, codeState, binds, fwd,
                   up, faults>>

\* mt map: `success` is what add_mapping returns
cmd_map(a) ==
    /\ up
    /\ LET m == add_mapping(mappings, a[1], a[2], a[3], a[4])
           success == None
       IN  /\ mappings' = m
           /\ disk' = save_mappings(disk, user_mapping_file, m,
                                    Len(SaveMappingsSteps))
           /\ last' = [op |-> "cmd_map", arg |-> a, err |-> "none",
                       out |-> [reply |-> IF truthy(success) THEN "map_ok"
                                          ELSE "map_failed"]]
    /\ UNCHANGED <<calls, rules, pending, webhooks, issued, codeState, binds, fwd,
                   up, faults>>

\* mt unmap: the lookup of user_mapping_manager.remove_mapping raises
\* AttributeError, which the handler answers with the exception text; the
\* class has no method that removes a mapping
cmd_unmap(t) ==
    /\ up
    /\ "remove_mapping" \notin UserMappingManagerAttrs
    /\ last' = [op |-> "cmd_unmap", arg |-> t, err |-> "AttributeError",
                out |-> [reply |-> "unmap_exception"]]
    /\ UNCHANGED <<calls, rules, pending, webhooks, issued, codeState, binds, fwd,
                   disk, up, mappings, faults>>

\* the reply of mt maps for what load_mappings returned
maps_reply(mapping_data) ==
    IF ~truthy(mapping_data) THEN "no_mappings"
    ELSE IF DOMAIN mapping_data = {} THEN "no_mappings"
    ELSE "maps_exception"

\* mt maps: load_mappings reads the file into self.mappings
cmd_maps ==
    /\ up
    /\ LET loaded == load_mappings(disk, user_mapping_file)
       IN  /\ mappings' = loaded.mappings
           /\ last' = [op |-> "cmd_maps", arg |-> <<>>, err |-> "none",
                       out |-> [reply |-> maps_reply(loaded.ret)]]
    /\ UNCHANGED <<calls, rules, pending, webhooks, issued, codeState, binds, fwd,
                   disk, up, faults>>

NextMaps ==
    \/ \E a \in MapCalls : CallAddMapping(a, Len(SaveMappingsSteps))
    \/ \E t \in MapTriples : CallGetMappedUserId(t)
    \/ \E a \in AutoCalls : CallAutoCreate(a)
    \/ \E a \in MapCalls : cmd_map(a)
    \/ \E t \in MapTriples : cmd_unmap(t)
    \/ cmd_maps

SpecMaps == Init /\ [][NextMaps]_vars

-----------------------------------------------------------------------------
(* The plugin: mt commands.  A handler runs without interruption up to its  *)
(* next await; other handlers run only while it is suspended there.         *)

AddConvs   == {UmoA}
BindConvs  == {UmoB, UmoD}
BindCodes  == {"a1b2c3"}
DelRids    == {str(n) : n \in 1..MaxRules}
WebhookUrls == {"https://discord.com/api/webhooks/1/t"}

\* event.get_platform_name(): the adapter of the conversation's platform
get_platform_name(umo) ==
    CASE umo[1] = "discord" -> "discord"
      [] umo[1] = "qq" -> "aiocqhttp"
      [] OTHER -> umo[1]

\* str.lower() of one token
lower(tok) ==
    CASE tok = "Discord" -> "discord"
      [] tok = "GroupMessage" -> "groupmessage"
      [] tok = "FriendMessage" -> "friendmessage"
      [] OTHER -> tok

is_discord(target_umo) ==
    \/ get_platform_name(target_umo) = "discord"
    \/ \E i \in 1..Len(target_umo) : lower(target_umo[i]) = "discord"

\* the channel id cmd_bind takes from the target; the empty string for None
bind_channel_id(target_umo) ==
    LET parts == split(target_umo, ":")
    IN  IF Len(parts) >= 3 THEN parts[3]
        ELSE IF Len(parts) = 2 THEN parts[2]
        ELSE <<>>

NumericTokens == {"100", "200", "300"}

\* whether int(s) returns: digits, with single underscores between digits
is_int_literal(s) ==
    /\ Len(s) % 2 = 1
    /\ \A i \in 1..Len(s) :
          IF i % 2 = 1 THEN s[i] \in NumericTokens ELSE s[i] = "_"

\* cmd_bind up to its reply or to the await of create_webhook_for_channel
cmd_bind_sync(p, data, code, target_umo) ==
    LET popped == pop_pending(p, code)
        added  == add_rule(data, popped.source_umo, target_umo)
    IN  IF popped.err # "none"
        THEN [pending |-> p, rules |-> data, err |-> popped.err,
              rid |-> NoRid, next |-> "reply"]
        ELSE IF added.err # "none"
        THEN [pending |-> popped.data, rules |-> data, err |-> added.err,
              rid |-> NoRid, next |-> "reply"]
        ELSE IF is_discord(target_umo) /\ bind_channel_id(target_umo) # <<>>
        THEN IF is_int_literal(bind_channel_id(target_umo))
             THEN [pending |-> popped.data, rules |-> added.data,
                   err |-> "none", rid |-> added.rid,
                   next |-> "create_webhook"]
             ELSE [pending |-> popped.data, rules |-> added.data,
                   err |-> "ValueError", rid |-> added.rid,
                   next |-> "reply"]
        ELSE [pending |-> popped.data, rules |-> added.data,
              err |-> "none", rid |-> added.rid, next |-> "reply"]

\* the plain_result cmd_bind yields
bind_reply(err, rid) ==
    [op |-> "cmd_bind", arg |-> <<>>, err |-> err,
     out |-> [reply |-> IF err = "none" THEN "bind_ok" ELSE "bind_failed",
              rid |-> rid]]

cmd_add(code, source_umo) ==
    /\ pending' = add_pending(pending, code, source_umo)
    /\ last' = [op |-> "cmd_add", arg |-> <<>>, err |-> "none", out |-> code]
    /\ UNCHANGED <<calls, disk, up, mappings, faults, rules, webhooks, issued, codeState, binds, fwd>>

\* suspends: whether create_webhook_for_channel reaches channel.create_webhook
\* (it returns None without suspending when it has no client or no channel)
cmd_bind(code, target_umo, suspends) ==
    LET r == cmd_bind_sync(pending, rules, code, target_umo)
    IN  /\ Cardinality(DOMAIN r.rules) <= MaxRules
        /\ pending' = r.pending
        /\ rules' = r.rules
        /\ IF r.next = "create_webhook" /\ suspends
           THEN /\ BagCardinality(binds) < MaxBinds
                /\ binds' = binds (+) SetToBag(
                       {[target_umo |-> target_umo, rid |-> r.rid]})
                /\ last' = last
           ELSE /\ binds' = binds
                /\ last' = bind_reply(r.err, r.rid)
        /\ UNCHANGED <<calls, disk, up, mappings, faults, webhooks, issued, codeState, fwd>>

\* create_webhook_for_channel returns the url, or None on any failure
cmd_bind_resume(b, webhook_url) ==
    /\ BagIn(b, binds)
    /\ webhooks' = IF webhook_url # None
                   THEN set_webhook_url(webhooks, b.target_umo, webhook_url)
                   ELSE webhooks
    /\ last' = bind_reply("none", b.rid)
    /\ binds' = binds (-) SetToBag({b})
    /\ UNCHANGED <<calls, disk, up, mappings, faults, rules, pending, issued, codeState, fwd>>

cmd_del(rid) ==
    /\ LET r == delete_rule(rules, rid)
       IN  /\ rules' = r.data
           /\ last' = [op |-> "cmd_del", arg |-> <<>>, err |-> r.err,
                       out |-> <<>>]
    /\ UNCHANGED <<calls, disk, up, mappings, faults, pending, webhooks, issued, codeState, binds, fwd>>

\* mt list: the ids of the rules list_rules returns for the conversation
cmd_list(source_umo) ==
    /\ LET listed == list_rules(rules, source_umo)
       IN  last' = [op |-> "cmd_list", arg |-> <<>>, err |-> "none",
                    out |-> [reply |-> IF DOMAIN listed = {}
                                       THEN "no_rules" ELSE "rules",
                             rids |-> DOMAIN listed]]
    /\ UNCHANGED <<calls, disk, up, mappings, faults, rules, pending, webhooks, issued, codeState, binds, fwd>>

-----------------------------------------------------------------------------
(* forward_message: one task per matched rule, gathered.  The literal texts *)
(* of the header are tokens; a character outside ASCII is written as its    *)
(* code point, <8f6c> for U+8F6C.                                           *)

\* the message component Plain(text=...)
Plain(text) == [type |-> "Plain", data |-> text]

\* a component the relay passes on without looking into it
Image(url) == [type |-> "Image", data |-> url]

\* the zero-width space "\u200b"
ZWSP == "<200b>"

\* an inbound AstrMessageEvent: unified_msg_origin, get_sender_name(),
\* get_sender_id(), get_messages()
Event(umo, sender_name, sender_id, messages) ==
    [unified_msg_origin |-> umo, sender_name |-> sender_name,
     sender_id |-> sender_id, messages |-> messages]

MsgEvents ==
    {Event(UmoA, "Alice", "42",
           <<Plain(<<"hello">>), Image(<<"https://x/1.png">>)>>),
     Event(UmoB, "Carol", "44", <<Plain(<<"hi">>)>>)}

\* str.split(sep, maxsplit)
RECURSIVE SplitMax(_, _, _, _)
SplitMax(s, sep, maxsplit, cur) ==
    IF maxsplit = 0 THEN <<cur \o s>>
    ELSE IF s = <<>> THEN <<cur>>
    ELSE IF Head(s) = sep
    THEN <<cur>> \o SplitMax(Tail(s), sep, maxsplit - 1, <<>>)
    ELSE SplitMax(Tail(s), sep, maxsplit, Append(cur, Head(s)))

format_origin_header(event, umo) ==
    LET parts == SplitMax(umo, ":", 2, <<>>)
        msg_type == IF Len(parts) = 3 THEN parts[2] ELSE <<"Unknown">>
        conversation_id == IF Len(parts) = 3 THEN parts[3] ELSE <<"Unknown">>
        source_platform == get_platform_name(event.unified_msg_origin)
        source_platform_human ==
            CASE source_platform = "aiocqhttp" -> "QQ"
              [] source_platform = "discord" -> "Discord"
              [] OTHER -> source_platform
        msg_type_human ==
            CASE msg_type = <<"GroupMessage">> ->
                     <<"<7fa4><7ec4><ff08>ID: ">> \o conversation_id
                         \o <<"<ff09><6d88><606f>">>
              [] msg_type = <<"FriendMessage">> ->
                     <<"<79c1><804a><ff08><5bf9><65b9> ID: ">>
                         \o conversation_id \o <<"<ff09><6d88><606f>">>
              [] OTHER ->
                     <<"<672a><77e5><7c7b><578b><ff08>ID: ">>
                         \o conversation_id \o <<"<ff09><6d88><606f>">>
    IN  <<"[<8f6c><53d1>] ", event.sender_name, " (", event.sender_id, ")",
          "\n", "<6765><81ea> ", source_platform_human, " <7684> ">>
        \o msg_type_human

\* the attributes class DiscordWebhookManager defines
DiscordWebhookManagerAttrs ==
    {"__init__", "set_context", "_get_discord_client",
     "create_webhook_for_channel", "get_qq_avatar_url",
     "get_discord_avatar_url", "get_default_avatar_url", "get_avatar_url",
     "format_message_content", "send_webhook_message",
     "build_virtual_username"}

PostResults == {"200", "201", "204", "404", "ClientError"}
SendResults == {"sent", "ValueError", "Exception"}

\* nothing was handed to context.send_message
NoSend == [session |-> NoUmo, chain |-> <<>>]

\* the coroutine _forward_single_rule(event, rule, rid, source_umo, chain)
NewTask(target_umo, event) ==
    [pc |-> "start", target_umo |-> target_umo, event |-> event,
     webhook_url |-> None, webhook |-> "none", posts |-> 0, sends |-> 0,
     relay |-> "none", sent |-> NoSend]

\* send_webhook_message: the POST answered with this status, or raised
send_webhook_message(result) == result \in {"200", "204", "201"}

\* _forward_with_webhook up to its first await: the lookup of
\* DiscordWebhookManager.auto_create_mapping_if_needed raises AttributeError,
\* which the handler turns into False, unless the class has that attribute
forward_with_webhook_sync ==
    IF "auto_create_mapping_if_needed" \in DiscordWebhookManagerAttrs
    THEN "post"
    ELSE "AttributeError"

skip_direct_relay_always(success) == TRUE

\* `if success: return`
skip_direct_relay(success) == success

direct_relay_no_header(task) ==
    [task EXCEPT !.pc = "sending", !.sends = @ + 1, !.relay = "pending",
                 !.sent = [session |-> task.target_umo,
                           chain |-> task.event.messages]]

\* the direct relay up to the await of context.send_message
direct_relay(task) ==
    LET header == format_origin_header(task.event,
                                       task.event.unified_msg_origin)
                  \o <<"\n", "\n", ZWSP>>
        new_chain == <<Plain(header)>> \o task.event.messages
    IN  [task EXCEPT !.pc = "sending", !.sends = @ + 1, !.relay = "pending",
                     !.sent = [session |-> task.target_umo,
                               chain |-> new_chain]]

\* _forward_single_rule after _forward_with_webhook returned
after_webhook(task, outcome) ==
    IF skip_direct_relay(outcome = "ok")
    THEN [task EXCEPT !.pc = "done", !.webhook = outcome]
    ELSE direct_relay([task EXCEPT !.webhook = outcome])

\* _forward_single_rule up to its first await
forward_single_rule_sync(task, whs) ==
    LET webhook_url == get_webhook_url(whs, task.target_umo)
        t == [task EXCEPT !.webhook_url = webhook_url]
    IN  IF webhook_url # None
        THEN IF forward_with_webhook_sync = "post"
             THEN [t EXCEPT !.pc = "posting", !.posts = @ + 1]
             ELSE after_webhook(t, "raised")
        ELSE direct_relay(t)

on_send_raised_abort(tasks, rid) ==
    [r \in DOMAIN tasks |->
        IF r = rid THEN [tasks[r] EXCEPT !.pc = "done", !.relay = "raised"]
        ELSE IF tasks[r].pc # "done"
        THEN [tasks[r] EXCEPT !.pc = "done", !.relay = "cancelled"]
        ELSE tasks[r]]

\* send_message raised: the task logs the error and ends
on_send_raised(tasks, rid) ==
    [tasks EXCEPT ![rid] = [@ EXCEPT !.pc = "done", !.relay = "raised"]]

\* a task resumes from its await with the result of the POST or of the send
forward_single_rule_resumed(tasks, rid, result) ==
    IF tasks[rid].pc = "posting"
    THEN [tasks EXCEPT ![rid] =
             after_webhook(@, IF send_webhook_message(result)
                              THEN "ok" ELSE "failed")]
    ELSE IF result = "sent"
    THEN [tasks EXCEPT ![rid] = [@ EXCEPT !.pc = "done", !.relay = "ok"]]
    ELSE on_send_raised(tasks, rid)

forward_message_reraise(slot, err) == [slot EXCEPT !.raised = err]

\* forward_message's `except Exception as e: logger.error(...)`
forward_message_except(slot, err) == [slot EXCEPT !.log = err]

\* _forward_single_rule's outer `except Exception`: the task logs and ends
forward_single_rule_except(task, err) ==
    [task EXCEPT !.pc = "done", !.webhook = "load raised"]

forward_message_serial(e, event) ==
    /\ \A e2 \in DOMAIN fwd : fwd[e2].pc = "idle"
    /\ fwd' = [fwd EXCEPT ![e] =
                 [pc |-> "gather", source_umo |-> event.unified_msg_origin,
                  tasks |-> [rid \in DOMAIN list_rules(rules,
                                          event.unified_msg_origin) |->
                               NewTask(rules[rid].target_umo, event)],
                  raised |-> "none", log |-> "none"]]
    /\ UNCHANGED <<calls, disk, up, mappings, faults, rules, pending, webhooks, last, issued, codeState, binds>>

forward_message(e, event) ==
    /\ fwd[e].pc = "idle"
    /\ LET source_umo == event.unified_msg_origin
           loaded == load_collection(disk, rule_file, rules)
           matched == list_rules(loaded.data, source_umo)
       IN  fwd' = IF loaded.err # "none"
                  THEN [fwd EXCEPT ![e] =
                           forward_message_except(FwdIdle, loaded.err)]
                  ELSE IF DOMAIN matched = {}
                  THEN [fwd EXCEPT ![e] = FwdIdle]
                  ELSE [fwd EXCEPT ![e] =
                         [pc |-> "gather", source_umo |-> source_umo,
                          tasks |-> [rid \in DOMAIN matched |->
                                       NewTask(matched[rid].target_umo,
                                               event)],
                          raised |-> "none", log |-> "none"]]
    /\ UNCHANGED <<calls, disk, up, mappings, faults, rules, pending, webhooks, last, issued, codeState, binds>>

forward_single_rule(e, rid) ==
    /\ fwd[e].pc = "gather"
    /\ fwd[e].tasks[rid].pc = "start"
    /\ LET loaded == load_collection(disk, webhook_file, webhooks)
       IN  fwd' = [fwd EXCEPT ![e].tasks[rid] =
                      IF loaded.err # "none"
                      THEN forward_single_rule_except(@, loaded.err)
                      ELSE forward_single_rule_sync(@, loaded.data)]
    /\ UNCHANGED <<calls, disk, up, mappings, faults, rules, pending, webhooks, last, issued, codeState, binds>>

forward_single_rule_resume(e, rid, result) ==
    /\ fwd[e].pc = "gather"
    /\ \/ fwd[e].tasks[rid].pc = "posting" /\ result \in PostResults
       \/ fwd[e].tasks[rid].pc = "sending" /\ result \in SendResults
    /\ fwd' = [fwd EXCEPT ![e].tasks =
                   forward_single_rule_resumed(@, rid, result)]
    /\ UNCHANGED <<calls, disk, up, mappings, faults, rules, pending, webhooks, last, issued, codeState, binds>>

\* asyncio.gather(*tasks, return_exceptions=True) returns when every task
\* has ended, and forward_message returns after it
forward_message_return(e) ==
    /\ fwd[e].pc = "gather"
    /\ \A rid \in DOMAIN fwd[e].tasks : fwd[e].tasks[rid].pc = "done"
    /\ fwd' = [fwd EXCEPT ![e] = FwdIdle]
    /\ UNCHANGED <<calls, disk, up, mappings, faults, rules, pending, webhooks, last, issued, codeState, binds>>

Next ==
    \/ \E c \in BindCodes, u \in AddConvs : cmd_add(c, u)
    \/ \E c \in BindCodes, t \in BindConvs, suspends \in BOOLEAN :
          cmd_bind(c, t, suspends)
    \/ \E b \in BagToSet(binds), url \in WebhookUrls \cup {None} :
          cmd_bind_resume(b, url)
    \/ \E rid \in DelRids : cmd_del(rid)
    \/ \E e \in Events, event \in MsgEvents : forward_message(e, event)
    \/ \E e \in Events : \E rid \in DOMAIN fwd[e].tasks :
          forward_single_rule(e, rid)
    \/ \E e \in Events : \E rid \in DOMAIN fwd[e].tasks :
          \E result \in PostResults \cup SendResults :
             forward_single_rule_resume(e, rid, result)
    \/ \E e \in Events : forward_message_return(e)

Spec == Init /\ [][Next]_vars

-----------------------------------------------------------------------------
(* The handshake with two codes and two initiating conversations, among the *)
(* other commands and the forwarding of one message.                        *)

BindingCodes   == {"a1b2c3", "k9k9k9"}
BindingSources == {UmoA, UmoA2}
BindingTargets == {UmoB}
BindingEvent   == Event(UmoA, "Alice", "42", <<Plain(<<"hello">>)>>)
BindingResults == {"sent"}
BindingMapCall == <<<<"qq">>, <<"7">>, <<"discord">>, <<"900">>>>

NextBinding ==
    \/ \E c \in BindingCodes, u \in BindingSources : cmd_add(c, u)
    \/ \E c \in BindingCodes, t \in BindingTargets, suspends \in BOOLEAN :
          cmd_bind(c, t, suspends)
    \/ \E b \in BagToSet(binds), url \in WebhookUrls \cup {None} :
          cmd_bind_resume(b, url)
    \/ \E rid \in DelRids : cmd_del(rid)
    \/ cmd_list(UmoA)
    \/ \E e \in Events : forward_message(e, BindingEvent)
    \/ \E e \in Events : \E rid \in DOMAIN fwd[e].tasks :
          forward_single_rule(e, rid)
    \/ \E e \in Events : \E rid \in DOMAIN fwd[e].tasks :
          \E result \in BindingResults :
             forward_single_rule_resume(e, rid, result)
    \/ \E e \in Events : forward_message_return(e)
    \/ cmd_map(BindingMapCall)

SpecBinding == Init /\ [][NextBinding]_vars

-----------------------------------------------------------------------------
(* The fan-out on its own: two messages of one source handled as            *)
(* overlapping events, after two handshakes have bound the source to two    *)
(* targets, while rules.json and webhooks.json can be damaged from outside. *)
(* The event loop runs every task that is ready, and every await of a POST  *)
(* or of context.send_message returns.                                      *)

\* the two inbound events, by the handler that takes them
FanMsg ==
    [m1 |-> Event(UmoA, "Alice", "42", <<Plain(<<"one">>)>>),
     m2 |-> Event(UmoA, "Alice", "42", <<Plain(<<"two">>)>>)]

FanEvents == DOMAIN FanMsg

\* rules.json and webhooks.json after `mt add` in UmoA, `mt bind` in UmoB
\* with a webhook created, `mt add` in UmoA, `mt bind` in UmoD
FanRules    == (str(1) :> Rule(UmoA, UmoB)) @@ (str(2) :> Rule(UmoA, UmoD))
FanWebhooks == UmoB :> "https://discord.com/api/webhooks/1/t"
FanFiles    == {rule_file, webhook_file}

InitFanout ==
    /\ rules = FanRules
    /\ pending = EmptyDict
    /\ webhooks = FanWebhooks
    /\ last = bind_reply("ValueError", str(2))
    /\ issued = {}
    /\ codeState = [c \in Codes |-> "never"]
    /\ binds = EmptyBag
    /\ fwd = [e \in FanEvents |-> FwdIdle]
    /\ disk = ensure_files([path \in DiskPaths |-> Absent])
    /\ up = TRUE
    /\ mappings = load_mappings(disk, user_mapping_file).mappings
    /\ faults = 0
    /\ calls = [c \in Callers |-> CallerIdle]

NextFanout ==
    \/ \E e \in FanEvents : forward_message(e, FanMsg[e])
    \/ \E e \in FanEvents : \E rid \in DOMAIN fwd[e].tasks :
          forward_single_rule(e, rid)
    \/ \E e \in FanEvents : \E rid \in DOMAIN fwd[e].tasks :
          \E result \in PostResults \cup SendResults :
             forward_single_rule_resume(e, rid, result)
    \/ \E e \in FanEvents : forward_message_return(e)
    \/ \E path \in FanFiles : ExternalCorrupt(path)

\* every created task is run, every await returns, gather returns
FairFanout ==
    \A e \in FanEvents :
       /\ WF_vars(forward_message_return(e))
       /\ \A rid \in DOMAIN FanRules :
             /\ WF_vars(rid \in DOMAIN fwd[e].tasks
                           /\ forward_single_rule(e, rid))
             /\ WF_vars(\E result \in PostResults \cup SendResults :
                           /\ rid \in DOMAIN fwd[e].tasks
                           /\ forward_single_rule_resume(e, rid, result))

SpecFanout == InitFanout /\ [][NextFanout]_vars /\ FairFanout

-----------------------------------------------------------------------------
(* Properties of the store *)

RulesUnique(data) ==
    \A r1 \in DOMAIN data : \A r2 \in DOMAIN data :
        r1 # r2 => data[r1] # data[r2]

Stored(data, source_umo, target_umo) ==
    \E rid \in DOMAIN data : data[rid] = Rule(source_umo, target_umo)

\* C1: after every add_rule or delete_rule no two stored rules have the same
\* (source_umo, target_umo); an add_rule of a stored pair raises ValueError
\* and leaves the rules as they were.
C1_UniqueRules ==
    [][/\ RulesUnique(rules')
       /\ \A s \in RuleSources : \A t \in RuleTargets :
            (Stored(rules, s, t) /\ CallAddRule(s, t))
                => (last'.err = "ValueError" /\ rules' = rules)]_vars

C1_Witness ==
    /\ last.op = "add_rule" /\ last.err = "ValueError"
    /\ Cardinality(DOMAIN rules) >= 2
    /\ Cardinality(issued) >= 2

\* C2: the ids successful add_rule calls return are strictly increasing
\* decimal strings starting at "1"; an id assigned once is never assigned
\* again, also after the rule that held it was deleted.
C2_IdsNeverReused ==
    [][\A s \in RuleSources : \A t \in RuleTargets :
         (CallAddRule(s, t) /\ last'.err = "none")
            => /\ last'.out \notin issued
               /\ \A r \in issued : int(r) < int(last'.out)
               /\ (issued = {} => last'.out = <<"1">>)]_vars

\* C4: pop_pending of a code that was never stored, or that was popped and
\* not stored again since, raises KeyError; a pop_pending that raises leaves
\* the pending codes as they were.
C4_PopSingleUse ==
    [][\A c \in Codes :
         CallPopPending(c)
            => /\ (codeState[c] # "stored" => last'.err = "KeyError")
               /\ (last'.err = "KeyError" => pending' = pending)
               /\ (last'.err = "none" => c \notin DOMAIN pending')]_vars

C4_Witness ==
    /\ last.op = "pop_pending" /\ last.err = "KeyError"
    /\ codeState[last.arg] = "consumed"
    /\ \E c \in Codes : codeState[c] = "stored"

\* the segments of a conversation id platform:kind:scope
Segment(umo, i) ==
    LET p == split(umo, ":") IN IF Len(p) >= i THEN <<p[i]>> ELSE <<>>

\* C5: every rule list_rules returns has the platform segment and the
\* conversation-kind segment of the query.
C5_SamePlatformAndKind ==
    last.op = "list_rules"
        => \A rid \in DOMAIN last.out :
              /\ Segment(last.out[rid].source_umo, 1) = Segment(last.arg, 1)
              /\ Segment(last.out[rid].source_umo, 2) = Segment(last.arg, 2)

\* a fuzzy match was returned while rules of another platform and of another
\* kind with the same scope are stored
C5_Witness ==
    /\ last.op = "list_rules" /\ last.arg = UmoA2
    /\ \E rid \in DOMAIN last.out : last.out[rid].source_umo = UmoA
    /\ \E rid \in DOMAIN rules : rules[rid].source_umo \in {UmoQ, UmoF}

\* the rules the lookup is to return: the exact matches if there are any,
\* otherwise those of the same platform and kind whose scope matches
ExpectedMatches(data, q) ==
    LET exact == {rid \in DOMAIN data : data[rid].source_umo = q}
        same(rid) ==
            /\ Segment(q, 3) # <<>>
            /\ Segment(data[rid].source_umo, 3) # <<>>
            /\ Segment(data[rid].source_umo, 1) = Segment(q, 1)
            /\ Segment(data[rid].source_umo, 2) = Segment(q, 2)
        scope(u) == Segment(u, 3)[1]
        drift(rid) ==
            \/ scope(data[rid].source_umo) = scope(q)
            \/ endswith(scope(data[rid].source_umo), <<"_">> \o scope(q))
            \/ endswith(scope(q), <<"_">> \o scope(data[rid].source_umo))
    IN  IF exact # {} THEN exact
        ELSE {rid \in DOMAIN data : same(rid) /\ drift(rid)}

\* C6: list_rules(q) over the rules on disk is the set of exact matches when
\* there is one, and otherwise the set of fuzzy matches.
C6_ListRulesResult ==
    last.op = "list_rules"
        => last.out = Restrict(rules, ExpectedMatches(rules, last.arg))

\* an exact match is returned alone although a fuzzy candidate is stored
C6_Witness ==
    /\ last.op = "list_rules" /\ last.arg = UmoA2
    /\ \E rid \in DOMAIN rules : rules[rid].source_umo = UmoA
    /\ DOMAIN last.out # {}
    /\ \A rid \in DOMAIN last.out : last.out[rid].source_umo = UmoA2

-----------------------------------------------------------------------------
(* Properties of the commands and of the delivery *)

\* C3: a completed mt bind with code c from conversation t either removed c
\* from the pending codes and added the rule (initiator of c -> t), or
\* changed neither the pending codes nor the rules.
C3_BindAtomic ==
    [][\A c \in BindCodes : \A t \in BindConvs : \A suspends \in BOOLEAN :
         cmd_bind(c, t, suspends)
            => \/ pending' = pending /\ rules' = rules
               \/ /\ c \in DOMAIN pending
                  /\ c \notin DOMAIN pending'
                  /\ \E rid \in (DOMAIN rules') \ (DOMAIN rules) :
                        rules'[rid] = Rule(pending[c], t)]_vars

\* C7: a task that fails, in its webhook attempt or in its send, changes no
\* other task of the same message, and forward_message returns only when
\* every rule's direct relay was attempted and has ended.
C7_Isolation ==
    [][\A e \in Events :
        /\ \A rid \in DOMAIN fwd[e].tasks :
             (\/ forward_single_rule(e, rid)
              \/ \E result \in PostResults \cup SendResults :
                    forward_single_rule_resume(e, rid, result))
                => \A other \in (DOMAIN fwd[e].tasks) \ {rid} :
                      fwd'[e].tasks[other] = fwd[e].tasks[other]
        /\ forward_message_return(e)
             => \A rid \in DOMAIN fwd[e].tasks :
                   \/ fwd[e].tasks[rid].webhook = "ok"
                   \/ /\ fwd[e].tasks[rid].sends = 1
                      /\ fwd[e].tasks[rid].relay \in {"ok", "raised"}]_vars

\* rule a's webhook attempt and send both failed, rule b's relay completed
C7_Witness ==
    \E e \in Events : \E a \in DOMAIN fwd[e].tasks :
    \E b \in DOMAIN fwd[e].tasks :
        /\ a # b
        /\ fwd[e].tasks[a].pc = "done"
        /\ fwd[e].tasks[a].webhook = "raised"
        /\ fwd[e].tasks[a].relay = "raised"
        /\ fwd[e].tasks[b].pc = "done"
        /\ fwd[e].tasks[b].relay = "ok"
        /\ fwd[e].tasks[b].sends = 1

\* C8: for a target with a webhook url the POST is issued before any direct
\* relay of that rule, and when it answers 200/201/204 no direct relay is
\* sent.
C8_WebhookFirst ==
    \A e \in Events : \A rid \in DOMAIN fwd[e].tasks :
        LET t == fwd[e].tasks[rid]
        IN  /\ (t.webhook_url # None /\ t.pc # "start") => t.posts >= 1
            /\ t.webhook = "ok" => t.sends = 0

\* C9: per message and rule at most one POST; the direct relay is attempted
\* exactly once when the target has no webhook url or the webhook attempt
\* failed, and not at all when it succeeded.
C9_OneDelivery ==
    \A e \in Events : \A rid \in DOMAIN fwd[e].tasks :
        LET t == fwd[e].tasks[rid]
        IN  /\ t.posts <= 1 /\ t.sends <= 1
            /\ t.webhook_url = None => t.posts = 0
            /\ t.webhook = "ok" => t.sends = 0
            /\ (/\ t.pc \in {"sending", "done"}
                /\ t.webhook_url = None \/ t.webhook \in {"failed", "raised"})
                   => t.sends = 1

\* one message, two rules: a target whose webhook attempt failed and a
\* target without a webhook url, each relayed once
C9_Witness ==
    \E e \in Events : \E a \in DOMAIN fwd[e].tasks :
    \E b \in DOMAIN fwd[e].tasks :
        /\ fwd[e].tasks[a].pc = "done"
        /\ fwd[e].tasks[a].webhook_url # None
        /\ fwd[e].tasks[a].webhook = "raised"
        /\ fwd[e].tasks[a].sends = 1
        /\ fwd[e].tasks[b].pc = "done"
        /\ fwd[e].tasks[b].webhook_url = None
        /\ fwd[e].tasks[b].sends = 1

\* C10: whenever mt bind has created and saved the rule, it replies with the
\* success message that carries the rule id.
C10_BindReplyOk ==
    (last.op = "cmd_bind" /\ last.out.rid # NoRid)
        => last.out.reply = "bind_ok"

\* the forward header: sender name and sender id, the origin line, and the
\* zero-width separator after an empty line
HeaderOk(h, event) ==
    /\ Len(h) > 9
    /\ SubSeq(h, 2, 6) = <<event.sender_name, " (", event.sender_id, ")", "\n">>
    /\ SubSeq(h, Len(h) - 2, Len(h)) = <<"\n", "\n", ZWSP>>
    /\ \A i \in 7..(Len(h) - 3) : h[i] # "\n"
    /\ \E i \in 7..(Len(h) - 3) :
          h[i] \in {"QQ", "Discord", event.unified_msg_origin[1]}

\* C11: from empty collections, mt bind with the code issued in A, run in
\* B, leaves exactly the rule "1" from A to B and no pending code; a later
\* message in A gets one task for the rule to B, and when B has no webhook
\* url that task hands the host exactly one send addressed to B whose chain
\* is the forward header followed by the message's own chain.
C11_Handshake ==
    [][/\ \A c \in BindCodes : \A t \in BindConvs : \A suspends \in BOOLEAN :
            (/\ rules = EmptyDict
             /\ DOMAIN pending = {c}
             /\ cmd_bind(c, t, suspends))
                => /\ rules' = (<<"1">> :> Rule(pending[c], t))
                   /\ pending' = EmptyDict
       /\ \A e \in Events : \A event \in MsgEvents : \A t \in BindConvs :
            (/\ Stored(rules, event.unified_msg_origin, t)
             /\ forward_message(e, event))
                => /\ Cardinality({rid \in DOMAIN fwd'[e].tasks :
                          fwd'[e].tasks[rid].target_umo = t}) = 1
                   /\ \A rid \in DOMAIN fwd'[e].tasks :
                         fwd'[e].tasks[rid].event = event
       /\ \A e \in Events :
            forward_message_return(e)
                => \A rid \in DOMAIN fwd[e].tasks :
                      LET task == fwd[e].tasks[rid]
                      IN  task.webhook_url = None
                            => /\ task.sends = 1
                               /\ task.sent.session = task.target_umo
                               /\ Len(task.sent.chain)
                                     = 1 + Len(task.event.messages)
                               /\ task.sent.chain[1].type = "Plain"
                               /\ HeaderOk(task.sent.chain[1].data,
                                           task.event)
                               /\ Tail(task.sent.chain)
                                     = task.event.messages]_vars

\* the handshake's rule is the only one, B has no webhook url, and Alice's
\* two-component message in A was handed to the host for B
C11_Witness ==
    /\ rules = (<<"1">> :> Rule(UmoA, UmoB))
    /\ pending = EmptyDict
    /\ UmoB \notin DOMAIN webhooks
    /\ \E e \in Events :
          /\ DOMAIN fwd[e].tasks = {<<"1">>}
          /\ fwd[e].tasks[<<"1">>].pc = "done"
          /\ fwd[e].tasks[<<"1">>].relay = "ok"
          /\ fwd[e].tasks[<<"1">>].sent.session = UmoB
          /\ Len(fwd[e].tasks[<<"1">>].sent.chain) = 3

-----------------------------------------------------------------------------
(* Properties of the files *)

\* a file that json.load rejects
Corrupt(file) == file.exists /\ ~is_json(file.text)

\* C12: whatever step of save_json the process dies at, the file a store
\* method saves holds afterwards its previous content or the whole new
\* content, exists when it existed before, and no other data file changes.
C12_AtomicSaveJson ==
    [][\A call \in FileCalls : \A stop \in 0..Len(SaveJsonSteps) :
         (last'.op = call.op /\ StoreCall(call, stop))
            => LET f == store_file(call)
                   new == store_apply(call, load_json(disk, f).data).data
               IN  /\ disk'[f] = disk[f] \/ disk'[f] = File(dumps(new))
                   /\ disk[f].exists => disk'[f].exists
                   /\ ~Corrupt(disk[f]) => ~Corrupt(disk'[f])
                   /\ \A g \in DataFiles \ {f} : disk'[g] = disk[g]]_vars

\* the process died in delete_rule between the write of the temporary file
\* and the rename: the new content is in rules.tmp, rules.json has the old
C12_Witness ==
    /\ ~up
    /\ last.op = "delete_rule" /\ last.err = "crashed"
    /\ disk[with_suffix_tmp(rule_file)] = File(dumps(EmptyDict))
    /\ disk[rule_file] = File(dumps(<<"1">> :> Rule(UmoA, UmoB)))

\* C13: whatever step of save_mappings the process dies at, a mappings file
\* that held a whole document holds afterwards that document or the whole
\* new one.
C13_AtomicSaveMappings ==
    [][\A a \in FileMapCalls : \A stop \in 0..Len(SaveMappingsSteps) :
         (/\ disk[user_mapping_file].exists
          /\ is_json(disk[user_mapping_file].text)
          /\ CallAddMapping(a, stop))
            => \/ disk'[user_mapping_file] = disk[user_mapping_file]
               \/ disk'[user_mapping_file] =
                     File(dumps("mappings" :>
                            add_mapping(mappings, a[1], a[2], a[3], a[4])))]_vars

\* C14: a call that loads a file json.load rejects raises to its caller and
\* leaves the file as it is; a start that finds the mappings file in that
\* state reports an error, and an add_mapping after such a start does not
\* write over the file.
C14_CorruptSurfaces ==
    [][/\ \A call \in FileCalls : \A stop \in 0..Len(SaveJsonSteps) :
            (/\ Corrupt(disk[store_file(call)])
             /\ last'.op = call.op
             /\ StoreCall(call, stop))
                => last'.err = "ValueError" /\ disk' = disk
       /\ (Corrupt(disk[user_mapping_file]) /\ Start)
                => last'.err # "none"
       /\ \A a \in FileMapCalls : \A stop \in 0..Len(SaveMappingsSteps) :
            (/\ Corrupt(disk[user_mapping_file])
             /\ last.op = "start"
             /\ CallAddMapping(a, stop))
                => disk'[user_mapping_file] = disk[user_mapping_file]]_vars

\* C15: a store method that finds its file missing behaves as on the empty
\* mapping, and when it has something to save it succeeds and the file
\* exists afterwards with exactly that content; a start recreates the
\* three json files and takes a missing mappings file as no mappings; an
\* add_mapping that finds the mappings file missing creates it.
C15_MissingNotFatal ==
    [][/\ \A call \in FileCalls :
            (/\ ~disk[store_file(call)].exists
             /\ last'.op = call.op
             /\ StoreCall(call, Len(SaveJsonSteps)))
                => LET f == store_file(call)
                       empty == store_apply(call, EmptyDict)
                   IN  /\ last'.err = empty.err
                       /\ last'.err \in {"none", "KeyError"}
                       /\ last'.out.log = "file missing"
                       /\ call.op \in {"add_rule", "add_pending",
                                        "set_webhook_url"}
                             => /\ last'.err = "none"
                                /\ disk'[f] = File(dumps(empty.data))
                                /\ DOMAIN empty.data # {}
                       /\ call.op = "list_rules"
                             => last'.out.ret = EmptyDict
                       /\ call.op = "get_webhook_url"
                             => last'.out.ret = None
       /\ Start
            => /\ \A f \in JsonFiles :
                    /\ disk'[f].exists
                    /\ ~disk[f].exists => disk'[f] = File(dumps(EmptyDict))
               /\ ~disk[user_mapping_file].exists
                    => mappings' = EmptyDict /\ last'.err = "none"
       /\ \A a \in FileMapCalls :
            (/\ ~disk[user_mapping_file].exists
             /\ CallAddMapping(a, Len(SaveMappingsSteps)))
                => /\ last'.err = "none"
                   /\ disk'[user_mapping_file].exists
                   /\ load_mappings(disk', user_mapping_file).mappings
                         = mappings'
                   /\ mapping_key(a[1], a[2], a[3]) \in DOMAIN mappings']_vars

\* rules.json was removed while the plugin ran; the add_rule after that
\* found it missing and created it with the rule "1"
C15_Witness ==
    /\ up
    /\ last.op = "add_rule" /\ last.err = "none"
    /\ last.out.log = "file missing"
    /\ disk[rule_file] = File(dumps(<<"1">> :> Rule(UmoA, UmoB)))

-----------------------------------------------------------------------------
(* Properties of the identity mappings *)

\* get_mapped_user_id for a triple
Mapped(m, t) == get_mapped_user_id(m, t[1], t[2], t[3])

\* C16: after add_mapping(p1, u1, p2, u2) the lookup of (p1, u1, p2) gives
\* u2, the lookup of every other triple gives what it gave before, and with
\* no mapping stored every lookup gives the user id it was asked about.
C16_MappingRoundTrip ==
    [][/\ mappings = EmptyDict => \A t \in MapTriples : Mapped(mappings, t) = t[2]
       /\ \A a \in MapCalls :
            CallAddMapping(a, Len(SaveMappingsSteps))
                => /\ Mapped(mappings', <<a[1], a[2], a[3]>>) = a[4]
                   /\ \A t \in MapTriples \ {<<a[1], a[2], a[3]>>} :
                         Mapped(mappings', t) = Mapped(mappings, t)]_vars

\* C17: auto_create_mapping_if_needed for a sender without a forward
\* mapping leaves both directions in place: sender -> target id and target
\* id -> sender.
C17_AutoCreateBothWays ==
    [][\A a \in AutoCalls :
         (/\ mapping_key(a[1], a[2], a[3]) \notin DOMAIN mappings
          /\ CallAutoCreate(a))
            => /\ Mapped(mappings', <<a[1], a[2], a[3]>>) = a[4]
               /\ Mapped(mappings', <<a[3], a[4], a[1]>>) = a[2]]_vars

\* C18: mt unmap of a stored mapping removes it, so that the lookup gives
\* the user id again; mt unmap of a mapping that is not stored answers with
\* an error and changes nothing.
C18_UnmapRemoves ==
    [][\A t \in MapTriples :
         cmd_unmap(t)
            => IF mapping_key(t[1], t[2], t[3]) \in DOMAIN mappings
               THEN /\ mapping_key(t[1], t[2], t[3]) \notin DOMAIN mappings'
                    /\ Mapped(mappings', t) = t[2]
               ELSE /\ last'.err # "none"
                    /\ mappings' = mappings]_vars

\* C19: mt maps answers 'no mappings' only when no mapping is stored.
C19_MapsListsAll ==
    (last.op = "cmd_maps" /\ last.out.reply = "no_mappings")
        => mappings = EmptyDict

\* C20: mt map answers with the success text exactly when the mapping is
\* stored afterwards, and with a failure text only when it is not.
C20_MapReplyAgrees ==
    last.op = "cmd_map"
        => LET key == mapping_key(last.arg[1], last.arg[2], last.arg[3])
               stored == /\ key \in DOMAIN mappings
                         /\ mappings[key] = last.arg[4]
                         /\ load_mappings(disk, user_mapping_file).mappings
                               = mappings
           IN  last.out.reply = "map_ok" <=> stored

-----------------------------------------------------------------------------
(* Properties of the fan-out *)

\* C21: forward_message creates the tasks of all matched rules together,
\* returns only when every one of them has ended, lets no exception of a
\* task or of the store out to the host, and, every await returning, ends
C21_FanOut ==
    /\ [](\A e \in FanEvents : fwd[e].raised = "none")
    /\ [][\A e \in FanEvents :
            /\ (fwd[e].pc = "idle" /\ fwd'[e].pc = "gather") =>
                   /\ DOMAIN fwd'[e].tasks =
                          DOMAIN list_rules(rules, FanMsg[e].unified_msg_origin)
                   /\ \A rid \in DOMAIN fwd'[e].tasks :
                          fwd'[e].tasks[rid].pc = "start"
            /\ (fwd[e].pc = "gather" /\ fwd'[e].pc = "idle") =>
                   \A rid \in DOMAIN fwd[e].tasks :
                      fwd[e].tasks[rid].pc = "done"]_vars
    /\ \A e \in FanEvents : (fwd[e].pc = "gather") ~> (fwd[e].pc = "idle")

\* both deliveries of one message are in flight together, and the other
\* message's handler has logged a store error
C21_Witness ==
    /\ fwd["m1"].pc = "gather"
    /\ \A rid \in DOMAIN FanRules :
          /\ rid \in DOMAIN fwd["m1"].tasks
          /\ fwd["m1"].tasks[rid].pc = "sending"
    /\ fwd["m2"].pc = "idle"
    /\ fwd["m2"].log = "ValueError"

\* C22: nothing orders the deliveries of two messages: the handler of a
\* message starts while another message's deliveries are in flight, and a
\* delivery in flight completes whatever the state of the others, so the
\* two targets can see the two messages in opposite orders
C22_NoOrdering ==
    \A e \in FanEvents :
       /\ fwd[e].pc = "idle" => ENABLED forward_message(e, FanMsg[e])
       /\ \A rid \in DOMAIN fwd[e].tasks :
             fwd[e].tasks[rid].pc = "sending" =>
                ENABLED forward_single_rule_resume(e, rid, "sent")

\* "one" has reached UmoB and not yet UmoD, "two" has reached UmoD and not
\* yet UmoB
C22_Witness ==
    /\ fwd["m1"].pc = "gather" /\ fwd["m2"].pc = "gather"
    /\ fwd["m1"].source_umo = fwd["m2"].source_umo
    /\ fwd["m1"].tasks[str(1)].target_umo = UmoB
    /\ fwd["m1"].tasks[str(1)].relay = "ok"
    /\ fwd["m2"].tasks[str(1)].pc = "sending"
    /\ fwd["m2"].tasks[str(2)].target_umo = UmoD
    /\ fwd["m2"].tasks[str(2)].relay = "ok"
    /\ fwd["m1"].tasks[str(2)].pc = "sending"
    /\ fwd["m1"].tasks[str(1)].event # fwd["m2"].tasks[str(1)].event

-----------------------------------------------------------------------------
(* Properties of callers that do not share an event loop *)

\* the dict of a collection file
Persisted(path) == load_json(disk, path).data

\* C23: a method saves the dict it loaded with its own change applied,
\* whatever another caller saved between that load and this save; so the
\* other caller's change is lost, or its rule id is given out twice
C23_StaleSave ==
    [][\A c \in Callers :
          (calls[c].pc = "loaded" /\ calls'[c].pc = "returned") =>
             /\ calls'[c].err = "none"
             /\ disk'[store_file(calls[c].call)] =
                   File(dumps(store_apply(calls[c].call,
                                          calls[c].base).data))]_vars

\* each caller has made one call, add_rule of its own pair; both calls
\* returned rule id 1 without error and rules.json holds one rule
C23_Witness ==
    /\ \A c \in Callers :
          /\ calls[c].n = 1
          /\ calls[c].pc = "returned"
          /\ calls[c].call.op = "add_rule"
          /\ calls[c].err = "none"
          /\ calls[c].ret = str(1)
    /\ calls["p1"].call # calls["p2"].call
    /\ Cardinality(DOMAIN Persisted(rule_file)) = 1

-----------------------------------------------------------------------------
(* Properties of the handshake with two codes *)

\* C24: a pending entry keeps its code and its initiator through every step
\* of every handler, except an mt bind that presents its code (which removes
\* it) and an mt add that drew the same code again
C24_PendingPersists ==
    [][\A c \in DOMAIN pending :
          \/ c \in DOMAIN pending' /\ pending'[c] = pending[c]
          \/ /\ c \notin DOMAIN pending'
             /\ \E t \in BindingTargets, suspends \in BOOLEAN :
                   cmd_bind(c, t, suspends)
          \/ \E u \in BindingSources : cmd_add(c, u)]_vars

\* code a1b2c3 of UmoA is still pending after the other code was bound, the
\* rule deleted, a mapping stored and while a message is being forwarded
C24_Witness ==
    /\ "a1b2c3" \in DOMAIN pending
    /\ pending["a1b2c3"] = UmoA
    /\ "k9k9k9" \notin DOMAIN pending
    /\ last.op = "cmd_del" /\ last.err = "none"
    /\ webhooks # EmptyDict
    /\ mappings # EmptyDict
    /\ fwd["m1"].pc = "gather"

\* C25: a rule is stored only by an mt bind, with the initiator of the code
\* it presents as source and its own conversation as target, and a code gets
\* its initiator only from an mt add in that conversation; no other step
\* adds a rule or changes one
C25_Provenance ==
    /\ [](\A rid \in DOMAIN rules :
            /\ rules[rid].source_umo \in BindingSources
            /\ rules[rid].target_umo \in BindingTargets)
    /\ [][/\ \A rid \in DOMAIN rules' :
               \/ rid \in DOMAIN rules /\ rules'[rid] = rules[rid]
               \/ \E c \in DOMAIN pending, t \in BindingTargets :
                     /\ rules'[rid] = Rule(pending[c], t)
                     /\ \E suspends \in BOOLEAN : cmd_bind(c, t, suspends)
          /\ \A c \in DOMAIN pending' :
               \/ c \in DOMAIN pending /\ pending'[c] = pending[c]
               \/ \E u \in BindingSources :
                     pending'[c] = u /\ cmd_add(c, u)]_vars

\* two rules bound with the codes of two initiators, the second one just now
C25_Witness ==
    /\ last.op = "cmd_bind"
    /\ \E r1, r2 \in DOMAIN rules :
          /\ rules[r1].source_umo = UmoA
          /\ rules[r2].source_umo = UmoA2
          /\ rules[r1].target_umo = UmoB /\ rules[r2].target_umo = UmoB

-----------------------------------------------------------------------------
(* Properties of the commands among the handlers of one event loop *)

\* C26: mt del of a stored id removes that rule and leaves every other rule,
\* the pending codes, the webhook urls and the user mappings as they were;
\* mt del of an absent id fails with KeyError and changes nothing; and a
\* delivery looks the webhook url up by its target alone, so an entry left
\* behind serves the rules bound to that target later
C26_DeleteFrame ==
    [][/\ \A rid \in DelRids :
            (last'.op = "cmd_del" /\ cmd_del(rid)) =>
               /\ IF rid \in DOMAIN rules
                  THEN /\ last'.err = "none"
                       /\ DOMAIN rules' = DOMAIN rules \ {rid}
                       /\ \A r \in DOMAIN rules' : rules'[r] = rules[r]
                  ELSE /\ last'.err = "KeyError"
                       /\ rules' = rules
               /\ pending' = pending
               /\ webhooks' = webhooks
               /\ mappings' = mappings
               /\ disk' = disk
       /\ \A e \in Events : \A rid \in DOMAIN fwd[e].tasks :
            (fwd'[e] # fwd[e] /\ forward_single_rule(e, rid)) =>
               fwd'[e].tasks[rid].webhook_url =
                  get_webhook_url(webhooks, fwd[e].tasks[rid].target_umo)]_vars

\* the last rule was deleted just now and the webhook url of its target is
\* still stored
C26_Witness ==
    /\ last.op = "cmd_del"
    /\ last.err = "none"
    /\ rules = EmptyDict
    /\ UmoB \in DOMAIN webhooks

\* C27: on one event loop every store call works on the collection as the
\* call before it left it, whatever handlers are suspended at an await: an
\* mt add, mt bind, mt del or the end of a webhook creation changes the
\* stored collections by exactly its own successful store calls, and no two
\* stored rules have the same source and target
C27_NoLostUpdate ==
    /\ [](RulesUnique(rules))
    /\ [][/\ \A c \in BindCodes, u \in AddConvs :
               (last'.op = "cmd_add" /\ cmd_add(c, u)) =>
                  /\ pending' = With(pending, c, u)
                  /\ rules' = rules /\ webhooks' = webhooks
          /\ \A c \in BindCodes, t \in BindConvs :
               (/\ last'.op = "cmd_bind" \/ binds' # binds
                /\ BagCardinality(binds') >= BagCardinality(binds)
                /\ \E suspends \in BOOLEAN : cmd_bind(c, t, suspends)) =>
                  LET popped == pop_pending(pending, c)
                      added  == add_rule(rules, popped.source_umo, t)
                  IN  /\ pending' = IF popped.err = "none"
                                    THEN Without(pending, c) ELSE pending
                      /\ rules' = IF popped.err = "none" /\ added.err = "none"
                                  THEN With(rules, added.rid,
                                            Rule(popped.source_umo, t))
                                  ELSE rules
                      /\ webhooks' = webhooks
          /\ \A b \in BagToSet(binds), url \in WebhookUrls \cup {None} :
               (binds' # binds /\ cmd_bind_resume(b, url)) =>
                  /\ webhooks' = IF url # None
                                 THEN With(webhooks, b.target_umo, url)
                                 ELSE webhooks
                  /\ rules' = rules /\ pending' = pending
          /\ \A rid \in DelRids :
               (last'.op = "cmd_del" /\ cmd_del(rid)) =>
                  /\ rules' = IF rid \in DOMAIN rules
                              THEN Without(rules, rid) ELSE rules
                  /\ pending' = pending /\ webhooks' = webhooks
          /\ (fwd' # fwd \/ mappings' # mappings) =>
                  /\ rules' = rules
                  /\ pending' = pending
                  /\ webhooks' = webhooks]_vars

\* an mt add has just stored a code while an mt bind is suspended in its
\* webhook creation and a delivery is waiting for its send to return
C27_Witness ==
    /\ last.op = "cmd_add"
    /\ DOMAIN pending = BindCodes
    /\ BagCardinality(binds) = 1
    /\ rules # EmptyDict
    /\ \E rid \in DOMAIN fwd["m1"].tasks :
          fwd["m1"].tasks[rid].pc = "sending"

====
